---- MODULE Spec2Model ----
(***************************************************************************)
(* Similarity detection engine of AIDR-Bastion: the backend registry       *)
(* (BaseManager / SimilarityManager), the search clients                   *)
(* (BaseSearchClient, BaseSearchClientMethods, AsyncQdrantClientWrapper)   *)
(* and the run of one text through segmentation, embedding, search,        *)
(* aggregation and classification.                                         *)
(*                                                                         *)
(* Scores are the source's floats times 100 (0.7 -> 70, 0.87 -> 87).       *)
(* Python's None is the string "None"; a client object is identified with  *)
(* the key it is stored under in _clients_map.                             *)
(*                                                                         *)
(* Spec         registry operations interleaved with runs of short texts   *)
(* SpecSegment  split_text_into_sentences on texts given by character      *)
(* SpecBatch    runs of texts that need more than one batch                *)
(* SpecSearch   search_similar_documents called with a vector              *)
(* SpecSelect   _set_active_client on registries with every enabled value  *)
(* SpecClose    sequences of close() and close_connections()               *)
(* SpecEncode   runs in which model.encode raises for some chunks          *)
(* SpecLive     runs under weak fairness of the backend answers            *)
(* SpecPair     two runs in flight at once on the same client              *)
(***************************************************************************)
EXTENDS Integers, Sequences, FiniteSets, TLC

\* ------------------------------------------------------------------ bounds
MaxSentences == 2
\* longest text given character by character to split_text_into_sentences
MaxChars == 4
\* number of sentences of the texts that need more than one batch
LongLen == 6
\* close() calls followed per client
MaxCloses == 3

\* ------------------------------------------------------- program constants
None == "None"

SIMILARITY_NOTIFY_THRESHOLD == 70
SIMILARITY_BLOCK_THRESHOLD == 87
batch_size == 5
PrimaryLimit == 5
\* the vector length search_similar_documents expects and index_create gives
\* the collection; the embedding model is taken to match it
EMBEDDING_DIM == 768
DegradedLimit == 3

\* ALL_CLIENTS, in the order that fixes the iteration order of _clients_map.
\* AsyncElasticsearchClient is AsyncOpenSearchClient under other names; the
\* model keeps one of the two index-based classes.
ALL_CLIENTS == <<"opensearch", "qdrant">>
ClientIds == {ALL_CLIENTS[i] : i \in 1..Len(ALL_CLIENTS)}
\* identifiers a caller may pass that name no client class
UnknownIds == {"unknown"}

\* the index-based variants share BaseSearchClient.prepare_triggered_rules,
\* the collection-based variant overrides it
Variant(c) == IF c = "qdrant" THEN "qdrant" ELSE "index"

Runs == {"r1"}
\* two calls of run in flight at once
ALL_RUNS == <<"r1", "r2">>
PairRuns == {ALL_RUNS[i] : i \in 1..Len(ALL_RUNS)}

\* ------------------------------------------------------------------- texts
\* A text is given as the sequence of sentences the tokenizer cuts it into;
\* a sentence is a sequence of characters.
S_blank == <<" ">>
S_one == <<" ", "a">>
S1 == <<"s", "1">>
S2 == <<"s", "2", " ">>
Sentences == {S_blank, S_one, S1, S2}
Whitespace == {" ", "\n"}

SeqsUpTo(S, n) == UNION {[1..k -> S] : k \in 0..n}
Texts == SeqsUpTo(Sentences, MaxSentences)

\* ---------------------------------------------------------- backend corpus
\* The stored documents each chunk is near to, as the backend ranks them
\* (descending score).  Static for the life of the model.
Hit(s, cat, id, det) == [score |-> s, category |-> cat, id |-> id, details |-> det, text |-> det]

Corpus(chunk) ==
    IF chunk = <<"s", "1">> THEN
        << Hit(92, "weapons", "X", "x92"), Hit(87, "jailbreak", "W", "w87"),
           Hit(75, "weapons", "Y", "y75"), Hit(70, "drugs", "Z", "z70"),
           Hit(60, "low", "U", "u60") >>
    ELSE IF chunk = <<"s", "2">> THEN
        << Hit(75, "misc", "X", "x75"), Hit(72, "misc", "V", "v72"),
           Hit(72, "drugs", "Z", "z72"), Hit(71, "other", "T", "t71") >>
    ELSE << >>

\* ------------------------------------------------------------ pure helpers
Min(a, b) == IF a < b THEN a ELSE b
Prefix(s, k) == SubSeq(s, 1, Min(k, Len(s)))

RECURSIVE Flatten(_)
Flatten(ss) == IF ss = << >> THEN << >> ELSE Head(ss) \o Flatten(Tail(ss))

\* str.strip()
RECURSIVE lstrip(_)
lstrip(s) == IF s # << >> /\ Head(s) \in Whitespace THEN lstrip(Tail(s)) ELSE s
RECURSIVE rstrip(_)
rstrip(s) ==
    IF s # << >> /\ s[Len(s)] \in Whitespace THEN rstrip(SubSeq(s, 1, Len(s) - 1)) ELSE s
strip(s) == rstrip(lstrip(s))

\* the characters of a text, sentence after sentence
TextChars(text) == Flatten(text)

\* nltk.sent_tokenize on a text given by the sentences it is cut into: the
\* outcome is an exception or the sentences
sent_tokenize(text) == [exc |-> FALSE, sentences |-> text]

\* the characters that end a sentence for the fallback splitter: "." stands
\* for each of . ! : ? and the ellipsis, which the pattern treats alike
SentenceEnd == {".", "\n"}

\* re.split(pattern, text).  Every alternative of the pattern starts with a
\* character of the first alternative's class, and the first alternative
\* matches the longest run of that class, so a match is a maximal run of
\* sentence-end characters.
RECURSIVE re_split(_)
re_split(s) ==
    LET ends == {i \in 1..Len(s) : s[i] \in SentenceEnd}
    IN  IF ends = {} THEN <<s>>
        ELSE LET i == CHOOSE i \in ends : \A k \in ends : i <= k
                 after == {j \in (i + 1)..Len(s) : s[j] \notin SentenceEnd}
                 j == IF after = {} THEN Len(s) + 1
                      ELSE CHOOSE j \in after : \A k \in after : j <= k
             IN  <<SubSeq(s, 1, i - 1)>> \o re_split(SubSeq(s, j, Len(s)))

\* re.sub(r"\s+", " ", sentence)
RECURSIVE collapse(_)
collapse(s) ==
    IF s = << >> THEN << >>
    ELSE IF Head(s) \in Whitespace THEN <<" ">> \o collapse(lstrip(s))
    ELSE <<Head(s)>> \o collapse(Tail(s))

\* _fallback_sentence_split
_fallback_sentence_split(text) ==
    LET sentences == re_split(text)
        stripped == [i \in 1..Len(sentences) |-> strip(sentences[i])]
        kept == SelectSeq(stripped, LAMBDA x : x # << >> /\ Len(x) > 1)
    IN  [i \in 1..Len(kept) |-> collapse(kept[i])]

\* the loop of split_text_into_sentences over the sentences
cleaned_sentences_nonempty(sentences) ==
    LET stripped == [i \in 1..Len(sentences) |-> strip(sentences[i])]
    IN  SelectSeq(stripped, LAMBDA x : x # << >>)

cleaned_sentences(sentences) ==
    LET stripped == [i \in 1..Len(sentences) |-> strip(sentences[i])]
    IN  SelectSeq(stripped, LAMBDA x : x # << >> /\ Len(x) > 1)

\* split_text_into_sentences on the characters of the text, given the outcome
\* of nltk.sent_tokenize
split_text_into_sentences_nofilter(text, tokenized) == tokenized.sentences

split_text_into_sentences(text, tokenized) ==
    IF text = << >> \/ strip(text) = << >> THEN << >>
    ELSE LET sentences == IF tokenized.exc THEN _fallback_sentence_split(strip(text))
                          ELSE tokenized.sentences
         IN  cleaned_sentences(sentences)

\* A vector is given by its length and by the chunk whose stored neighbours
\* it is near to; the empty list has length 0.
Vector(dim, near) == [dim |-> dim, near |-> near]
EmptyVector == Vector(0, << >>)

\* text_embedding: the model's vector for the chunk
text_embedding_empty(model_is_loaded, chunk) ==
    IF ~model_is_loaded THEN [exc |-> None, vector |-> EmptyVector]
    ELSE [exc |-> None, vector |-> Vector(EMBEDDING_DIM, chunk)]

text_embedding(model_is_loaded, chunk) ==
    IF ~model_is_loaded THEN [exc |-> "ValueError", vector |-> EmptyVector]
    ELSE [exc |-> None, vector |-> Vector(EMBEDDING_DIM, chunk)]

\* _get_action
_get_action_strict(score) ==
    IF score > SIMILARITY_BLOCK_THRESHOLD THEN "block" ELSE "notify"

_get_action(score) ==
    IF score >= SIMILARITY_BLOCK_THRESHOLD THEN "block" ELSE "notify"

\* the backend's answer to a top-k query
BackendTopK(vector, k) == Prefix(Corpus(vector.near), k)

\* Qdrant applies score_threshold itself: scores below it are not returned
BackendSearchQdrant(vector, k, threshold) ==
    Prefix(SelectSeq(Corpus(vector.near), LAMBDA h : h.score >= threshold), k)

\* keep the first hit of every category
DedupByCategory_last(hits) ==
    LET keep(i) == \A j \in (i + 1)..Len(hits) : hits[j].category # hits[i].category
        idx == {i \in 1..Len(hits) : keep(i)}
        RECURSIVE build(_)
        build(i) == IF i > Len(hits) THEN << >>
                    ELSE IF i \in idx THEN <<hits[i]>> \o build(i + 1)
                    ELSE build(i + 1)
    IN  build(1)

DedupByCategory(hits) ==
    LET keep(i) == \A j \in 1..(i - 1) : hits[j].category # hits[i].category
        idx == {i \in 1..Len(hits) : keep(i)}
        RECURSIVE build(_)
        build(i) == IF i > Len(hits) THEN << >>
                    ELSE IF i \in idx THEN <<hits[i]>> \o build(i + 1)
                    ELSE build(i + 1)
    IN  build(1)

\* the list comprehension of __search_similar_documents
Doc(h) == [action |-> _get_action(h.score), doc_id |-> h.id, name |-> h.category,
           details |-> h.details, body |-> h.text, score |-> h.score]

FilterDocs_inclusive(hits) ==
    LET kept == SelectSeq(hits, LAMBDA h : h.score >= SIMILARITY_NOTIFY_THRESHOLD)
    IN  [i \in 1..Len(kept) |-> Doc(kept[i])]

FilterDocs(hits) ==
    LET kept == SelectSeq(hits, LAMBDA h : h.score > SIMILARITY_NOTIFY_THRESHOLD)
    IN  [i \in 1..Len(kept) |-> Doc(kept[i])]

Rule(doc) == [action |-> doc.action, id |-> doc.doc_id, name |-> doc.name,
              details |-> doc.details, body |-> doc.body]

\* BaseSearchClient.prepare_triggered_rules: one rule per document, no dedup
prepare_triggered_rules_base(docs) == [i \in 1..Len(docs) |-> Rule(docs[i])]

\* AsyncQdrantClientWrapper.prepare_triggered_rules: dict keyed by doc_id,
\* a later document replaces the stored one only with a higher score
RECURSIVE DedupDocs(_, _)
DedupDocs(docs, acc) ==
    IF docs = << >> THEN acc
    ELSE LET d == Head(docs)
             at == {k \in 1..Len(acc) : acc[k].doc_id = d.doc_id}
         IN  IF at = {} THEN DedupDocs(Tail(docs), Append(acc, d))
             ELSE LET k == CHOOSE k \in at : TRUE
                  IN  IF d.score > acc[k].score
                      THEN DedupDocs(Tail(docs), [acc EXCEPT ![k] = d])
                      ELSE DedupDocs(Tail(docs), acc)

RECURSIVE DedupDocsFirst(_, _)
DedupDocsFirst(docs, acc) ==
    IF docs = << >> THEN acc
    ELSE LET d == Head(docs)
             at == {k \in 1..Len(acc) : acc[k].doc_id = d.doc_id}
         IN  IF at = {} THEN DedupDocsFirst(Tail(docs), Append(acc, d))
             ELSE DedupDocsFirst(Tail(docs), acc)

prepare_triggered_rules_qdrant_first(docs) ==
    LET dd == DedupDocsFirst(docs, << >>) IN [i \in 1..Len(dd) |-> Rule(dd[i])]

prepare_triggered_rules_qdrant(docs) ==
    LET dd == DedupDocs(docs, << >>) IN [i \in 1..Len(dd) |-> Rule(dd[i])]

prepare_triggered_rules(variant, docs) ==
    IF variant = "qdrant" THEN prepare_triggered_rules_qdrant(docs)
    ELSE prepare_triggered_rules_base(docs)

\* _pipeline_status: no rules -> allow, any block rule -> block, else notify
_pipeline_status_notify(rules) ==
    IF rules = << >> THEN "allow" ELSE "notify"

_pipeline_status(rules) ==
    IF rules = << >> THEN "allow"
    ELSE IF \E i \in 1..Len(rules) : rules[i].action = "block" THEN "block"
    ELSE "notify"

PipelineResult(status, rules, details) ==
    [status |-> status, triggered_rules |-> rules, details |-> details]

\* ================================================================== state
VARIABLES
    clients_map,        \* keys of BaseManager._clients_map (constructed clients)
    enabled,            \* client.enabled: "unset" (attribute never assigned), "true", "false"
    active_client,      \* BaseManager._active_client
    active_client_id,   \* BaseManager._active_client_id
    handle_open,        \* client._client is not None
    default_client,     \* settings.SIMILARITY_DEFAULT_CLIENT
    model_loaded,       \* app.utils.model is not None
    activated,          \* outcome of the last _activate_clients call
    switch_result,      \* outcome of the last switch_active_client call
    pc,                 \* position of each run
    client,             \* the client whose run method the manager called
    chunks,             \* chunks of the run
    batch_start,        \* index i of the batch loop (0-based)
    ops,                \* the tasks of the current batch, in task order
    similar_documents,  \* accumulated candidates
    result,             \* the PipelineResult returned, or None
    hist,               \* per-run observations: what held at the start, calls made
    seg,                \* a call of split_text_into_sentences: input, path, output
    closing             \* per client: close() calls made, library close() calls
                        \* that returned, close() calls made after one returned

registry_vars == <<clients_map, enabled, active_client, active_client_id, handle_open,
                   default_client, model_loaded, activated, switch_result>>
run_vars == <<pc, client, chunks, batch_start, ops, similar_documents, result, hist>>
aux_vars == <<seg, closing>>
vars == <<registry_vars, run_vars, aux_vars>>

NoSeg == [text |-> << >>, path |-> "-", out |-> << >>]
NoClosing == [c \in ClientIds |-> [calls |-> 0, releases |-> 0, late |-> 0]]

\* the text has no character other than whitespace
IsBlankText(t) == \A i \in 1..Len(t) : \A j \in 1..Len(t[i]) : t[i][j] \in Whitespace

NoHist == [blank |-> FALSE, active0 |-> None, activated0 |-> "no", enabled0 |-> FALSE, switched |-> FALSE,
           embed_calls |-> 0, backend_calls |-> 0, targets |-> {}, outcomes |-> << >>,
           reordered |-> FALSE, concurrent |-> FALSE]

Init ==
    /\ clients_map \in SUBSET ClientIds
    /\ enabled = [c \in ClientIds |-> "unset"]
    /\ active_client = None
    /\ active_client_id = None
    /\ handle_open = [c \in ClientIds |-> c \in clients_map]
    /\ default_client \in ClientIds
    /\ model_loaded \in BOOLEAN
    /\ activated = "no"
    /\ switch_result = "none"
    /\ pc = [r \in Runs |-> "idle"]
    /\ client = [r \in Runs |-> None]
    /\ chunks = [r \in Runs |-> << >>]
    /\ batch_start = [r \in Runs |-> 0]
    /\ ops = [r \in Runs |-> << >>]
    /\ similar_documents = [r \in Runs |-> << >>]
    /\ result = [r \in Runs |-> None]
    /\ hist = [r \in Runs |-> NoHist]
    /\ seg = NoSeg
    /\ closing = NoClosing

\* =============================================================== registry
\* next(iter(self._clients_map.values()))
FirstClient(cmap) ==
    ALL_CLIENTS[CHOOSE i \in 1..Len(ALL_CLIENTS) :
                    /\ ALL_CLIENTS[i] \in cmap
                    /\ \A j \in 1..(i - 1) : ALL_CLIENTS[j] \notin cmap]

\* getattr(self._active_client, "identifier", None): the clients define
\* _identifier, not identifier
getattr_identifier(c) == None

\* BaseSearchClient.check_connection: None when ping and index check pass,
\* ConfigurationException otherwise
check_connection(ping_ok, index_ok) ==
    IF ping_ok /\ index_ok THEN [exc |-> None, status |-> None]
    ELSE [exc |-> "ConfigurationException", status |-> None]

\* SimilarityManager._check_connections, for one client
CheckedEnabled(c, ping_ok, index_ok) ==
    LET r == check_connection(ping_ok, index_ok)
    IN  IF r.exc = None /\ r.status = "True" THEN "true" ELSE enabled[c]

\* BaseManager._set_active_client
_set_active_client_anyenabled(client_id, en) ==
    LET id == IF client_id = None THEN default_client ELSE client_id
    IN  IF id \in clients_map THEN
            [active |-> id, id |-> id, exc |-> None]
        ELSE IF active_client = None /\ clients_map # {} THEN
            [active |-> FirstClient(clients_map),
             id |-> getattr_identifier(FirstClient(clients_map)), exc |-> None]
        ELSE [active |-> active_client, id |-> active_client_id, exc |-> None]

_set_active_client(client_id, en) ==
    LET id == IF client_id = None THEN default_client ELSE client_id
    IN  IF id \in clients_map THEN
            IF en[id] = "unset" THEN
                [active |-> active_client, id |-> active_client_id, exc |-> "AttributeError"]
            ELSE IF en[id] = "false" THEN
                [active |-> active_client, id |-> active_client_id, exc |-> None]
            ELSE [active |-> id, id |-> id, exc |-> None]
        ELSE IF active_client = None /\ clients_map # {} THEN
            [active |-> FirstClient(clients_map),
             id |-> getattr_identifier(FirstClient(clients_map)), exc |-> None]
        ELSE [active |-> active_client, id |-> active_client_id, exc |-> None]

has_active_client == active_client # None

InFlight(r) == pc[r] = "gather"

\* BaseManager._activate_clients, given the clients whose ping succeeds and
\* the clients whose index exists
_activate_clients(ping_ok, index_ok) ==
    LET en == [c \in ClientIds |->
                  IF c \in clients_map
                  THEN CheckedEnabled(c, c \in ping_ok, c \in index_ok)
                  ELSE enabled[c]]
        s == _set_active_client(None, en)
    IN  /\ enabled' = en
        /\ active_client' = s.active
        /\ active_client_id' = s.id
        /\ activated' = IF s.exc = None THEN "done" ELSE "raised"
        /\ UNCHANGED <<clients_map, handle_open, default_client, model_loaded,
                       switch_result, run_vars, aux_vars>>

Activate ==
    \E ping_ok \in SUBSET clients_map, index_ok \in SUBSET clients_map :
        _activate_clients(ping_ok, index_ok)

\* BaseManager.switch_active_client
switch_active_client(client_id) ==
    LET old_client_id == active_client_id
        s == _set_active_client(client_id, enabled)
    IN  /\ active_client' = s.active
        /\ active_client_id' = s.id
        /\ switch_result' = IF s.exc # None THEN "raised"
                            ELSE IF old_client_id # s.id THEN "true" ELSE "false"
        /\ hist' = [r \in Runs |->
                      IF InFlight(r) THEN [hist[r] EXCEPT !.switched = TRUE] ELSE hist[r]]
        /\ UNCHANGED <<clients_map, enabled, handle_open, default_client, model_loaded,
                       activated, pc, client, chunks, batch_start, ops,
                       similar_documents, result, aux_vars>>

\* POST /switch_active_client: the request's client_id is passed on unchecked
SwitchActive == \E client_id \in ClientIds \cup UnknownIds : switch_active_client(client_id)

\* What the library's close() does: it succeeds, raises an exception of the
\* library's own class, or raises another exception.
CloseOutcomes == {"ok", "error", "other"}

\* the close that keeps _client after the library's close() returned
close_qdrant_keep(open, outcome) ==
    IF ~open THEN [open |-> FALSE, exc |-> None, released |-> FALSE]
    ELSE IF outcome = "ok" THEN [open |-> TRUE, exc |-> None, released |-> TRUE]
    ELSE [open |-> TRUE, exc |-> None, released |-> FALSE]

\* AsyncQdrantClientWrapper.close: every exception is caught and logged, and
\* _client is kept when close() raised
close_qdrant(open, outcome) ==
    IF ~open THEN [open |-> FALSE, exc |-> None, released |-> FALSE]
    ELSE IF outcome = "ok" THEN [open |-> FALSE, exc |-> None, released |-> TRUE]
    ELSE [open |-> TRUE, exc |-> None, released |-> FALSE]

\* AsyncOpenSearchClient.close: only OpenSearchException is caught
close_index(open, outcome) ==
    IF ~open THEN [open |-> FALSE, exc |-> None, released |-> FALSE]
    ELSE IF outcome = "ok" THEN [open |-> FALSE, exc |-> None, released |-> TRUE]
    ELSE IF outcome = "error" THEN [open |-> TRUE, exc |-> None, released |-> FALSE]
    ELSE [open |-> TRUE, exc |-> "Exception", released |-> FALSE]

close(c, open, outcome) ==
    IF Variant(c) = "qdrant" THEN close_qdrant(open, outcome) ELSE close_index(open, outcome)

\* SimilarityManager.close_connections: the loop over _clients_map.values(),
\* left at the first exception a close lets through
RECURSIVE close_from(_, _, _)
close_from(i, ho, outs) ==
    IF i > Len(ALL_CLIENTS)
    THEN [handle_open |-> ho, exc |-> None, called |-> {}, released |-> {}]
    ELSE LET c == ALL_CLIENTS[i]
         IN  IF c \notin clients_map THEN close_from(i + 1, ho, outs)
             ELSE LET r == close(c, ho[c], outs[c])
                      closed == [ho EXCEPT ![c] = r.open]
                      rel == IF r.released THEN {c} ELSE {}
                      rest == close_from(i + 1, closed, outs)
                  IN  IF r.exc # None
                      THEN [handle_open |-> closed, exc |-> r.exc,
                            called |-> {c}, released |-> rel]
                      ELSE [rest EXCEPT !.called = @ \cup {c}, !.released = @ \cup rel]

close_connections(outs) == close_from(1, handle_open, outs)

CloseAllWith(outs) ==
    /\ handle_open' = close_connections(outs).handle_open
    /\ UNCHANGED <<clients_map, enabled, active_client, active_client_id, default_client,
                   model_loaded, activated, switch_result, run_vars, aux_vars>>

CloseAll == \E outs \in [ClientIds -> CloseOutcomes] : CloseAllWith(outs)

\* ==================================================================== run
\* The client a task of the run talks to: `self` of the client's run method,
\* bound when the manager called it.
BoundClient_lookup(captured) ==
    IF active_client_id \in clients_map THEN active_client_id ELSE None

BoundClient(captured) == captured

HandleOpen(c) == c \in ClientIds /\ handle_open[c]

\* the first test of search_similar_documents: not vector, or len(vector) == 0
vector_rejected_strict(vector) == vector.dim # EMBEDDING_DIM

vector_rejected(vector) == vector.dim = 0

\* A call of search_similar_documents(vector), run to its first suspension:
\* the vector is checked and _index_exists is awaited.  hits is what the call
\* returns, res what __search_similar_documents makes of it, queries the
\* number of similarity queries sent, idx the answer of _index_exists.
SearchOp(chunk, vector) ==
    LET op == [st |-> "exists", chunk |-> chunk, vector |-> vector, hits |-> << >>,
               res |-> << >>, out |-> "-", queries |-> 0, idx |-> "-"]
    IN  IF vector_rejected(vector) THEN [op EXCEPT !.st = "done", !.out = "novector"]
        ELSE op

\* A task of the batch, run to its first suspension: __search_similar_documents
\* embeds the chunk and calls search_similar_documents.
NewOp(chunk) ==
    LET e == text_embedding(model_loaded, chunk)
    IN  IF e.exc # None
        THEN [SearchOp(chunk, e.vector) EXCEPT !.st = "raised", !.out = e.exc]
        ELSE SearchOp(chunk, e.vector)

\* the same task when model.encode itself may raise for the chunk: the
\* exception leaves text_embedding and the task like the ValueError does
NewOpEncode(chunk, encode_ok) ==
    IF model_loaded /\ ~encode_ok
    THEN [SearchOp(chunk, EmptyVector) EXCEPT !.st = "raised", !.out = "EncodeError"]
    ELSE NewOp(chunk)

\* batch = chunks[i : i + batch_size]; one task per chunk; fails holds the
\* positions of the chunks for which model.encode raises
BatchOpsEncode(cs, i, fails) ==
    LET batch == SubSeq(cs, i + 1, Min(i + batch_size, Len(cs)))
    IN  [k \in 1..Len(batch) |-> NewOpEncode(batch[k], (i + k) \notin fails)]

BatchOps(cs, i) == BatchOpsEncode(cs, i, {})

\* the exception asyncio.gather raises: that of the first task that raised
RaisedBy(os) ==
    IF \E k \in 1..Len(os) : os[k].st = "raised"
    THEN os[CHOOSE k \in 1..Len(os) :
                /\ os[k].st = "raised"
                /\ \A j \in 1..(k - 1) : os[j].st # "raised"].out
    ELSE None

\* the tail of BaseSearchClientMethods.run, after the batch loop
Finish(c, docs) ==
    LET triggered_rules == prepare_triggered_rules(Variant(c), docs)
    IN  PipelineResult(_pipeline_status(triggered_rules), triggered_rules, None)

\* the except branch of SimilarityManager.run
ManagerError_propagate(exc) == PipelineResult("raised", << >>, exc)

ManagerError(exc) ==
    PipelineResult("error", << >>,
                   <<"Error during similarity search with", active_client_id, exc>>)

NoActiveClientResult ==
    PipelineResult("error", << >>,
                   "No active search client available for similarity search")

\* SimilarityManager.run(text) up to the first suspension of the client's run
RunStartEncode(r, t, fails) ==
        /\ pc[r] = "idle"
        /\ hist' = [hist EXCEPT ![r] =
                       [NoHist EXCEPT !.blank = IsBlankText(t),
                                      !.active0 = active_client,
                                      !.activated0 = activated,
                                      !.enabled0 = \E c \in clients_map : enabled[c] = "true",
                                      !.concurrent = \E q \in DOMAIN pc \ {r} : InFlight(q),
                                      !.embed_calls =
                                          IF has_active_client
                                          THEN Len(BatchOps(split_text_into_sentences(
                                                       TextChars(t), sent_tokenize(t)), 0))
                                          ELSE 0]]
        /\ IF ~has_active_client THEN
               /\ result' = [result EXCEPT ![r] = NoActiveClientResult]
               /\ pc' = [pc EXCEPT ![r] = "returned"]
               /\ UNCHANGED <<client, chunks, batch_start, ops, similar_documents>>
           ELSE
               LET cs == split_text_into_sentences(TextChars(t), sent_tokenize(t))
               IN  /\ client' = [client EXCEPT ![r] = active_client]
                   /\ chunks' = [chunks EXCEPT ![r] = cs]
                   /\ batch_start' = [batch_start EXCEPT ![r] = 0]
                   /\ similar_documents' = [similar_documents EXCEPT ![r] = << >>]
                   /\ IF cs = << >> THEN
                          /\ result' = [result EXCEPT ![r] = Finish(active_client, << >>)]
                          /\ pc' = [pc EXCEPT ![r] = "returned"]
                          /\ UNCHANGED ops
                      ELSE
                          /\ ops' = [ops EXCEPT ![r] = BatchOpsEncode(cs, 0, fails)]
                          /\ pc' = [pc EXCEPT ![r] = "gather"]
                          /\ UNCHANGED result
        /\ UNCHANGED <<registry_vars, aux_vars>>

RunStartWith(r, t) == RunStartEncode(r, t, {})

RunStart(r) == \E t \in Texts : RunStartWith(r, t)

\* a task finishes while a task before it in the batch is still running
Overtakes(os, i, op) ==
    /\ op.st \in {"done", "raised"}
    /\ \E j \in 1..(i - 1) : os[j].st \notin {"done", "raised"}

\* search_similar_documents after _index_exists has answered
AfterIndexExists_ignore(op, exists) ==
    [op EXCEPT !.st = "search", !.idx = IF exists THEN "yes" ELSE "no"]

AfterIndexExists(op, exists) ==
    IF exists THEN [op EXCEPT !.st = "search", !.idx = "yes"]
    ELSE [op EXCEPT !.st = "done", !.out = "noindex", !.idx = "no"]

\* the answer to the _index_exists call of search_similar_documents
OpExists(r) ==
    \E i \in 1..Len(ops[r]), answer \in {"yes", "no", "error"} :
        LET op == ops[r][i]
            target == BoundClient(client[r])
            exists == HandleOpen(target) /\ answer = "yes"
            new == AfterIndexExists(op, exists)
        IN  /\ op.st = "exists"
            /\ hist' = [hist EXCEPT ![r].backend_calls = @ + 1,
                                    ![r].targets = @ \cup {target},
                                    ![r].reordered = @ \/ Overtakes(ops[r], i, new)]
            /\ ops' = [ops EXCEPT ![r][i] = new]
            /\ UNCHANGED <<registry_vars, pc, client, chunks, batch_start,
                           similar_documents, result, aux_vars>>

\* AsyncQdrantClientWrapper.search_similar_documents from the search call on,
\* given whether the call succeeds
\* the task once search_similar_documents has returned hits
Returns(op, out, hits) ==
    [op EXCEPT !.st = "done", !.out = out, !.hits = hits, !.res = FilterDocs(hits)]

\* the search that sends the query again when it failed
QdrantSearch_again(op, ok) ==
    LET q == [op EXCEPT !.queries = @ + 1]
    IN  IF ok THEN
            Returns(q, "ok", DedupByCategory(
                BackendSearchQdrant(op.vector, PrimaryLimit, SIMILARITY_NOTIFY_THRESHOLD)))
        ELSE [q EXCEPT !.st = "search"]

QdrantSearch_raise(op, ok) ==
    LET q == [op EXCEPT !.queries = @ + 1]
    IN  IF ok THEN
            Returns(q, "ok", DedupByCategory(
                BackendSearchQdrant(op.vector, PrimaryLimit, SIMILARITY_NOTIFY_THRESHOLD)))
        ELSE [q EXCEPT !.st = "raised", !.out = "SearchError"]

QdrantSearch(op, ok) ==
    LET q == [op EXCEPT !.queries = @ + 1]
    IN  IF ok THEN
            Returns(q, "ok", DedupByCategory(
                BackendSearchQdrant(op.vector, PrimaryLimit, SIMILARITY_NOTIFY_THRESHOLD)))
        ELSE Returns(q, "fail", << >>)

\* search_similar_documents of the index-based variants: the primary query
\* through _search, which answers None on any error
IndexSearch(op, ok) ==
    LET q == [op EXCEPT !.queries = @ + 1]
    IN  IF ok THEN Returns(q, "ok", DedupByCategory(BackendTopK(op.vector, PrimaryLimit)))
        ELSE [q EXCEPT !.st = "retry"]

\* the degraded retry of the index-based variants
IndexRetry(op, ok) ==
    LET q == [op EXCEPT !.queries = @ + 1]
    IN  IF ok THEN Returns(q, "ok3", DedupByCategory(BackendTopK(op.vector, DegradedLimit)))
        ELSE Returns(q, "fail", << >>)

OpSearch(r) ==
    \E i \in 1..Len(ops[r]), answer \in BOOLEAN :
        LET op == ops[r][i]
            target == BoundClient(client[r])
            ok == HandleOpen(target) /\ answer
            new == IF Variant(client[r]) = "qdrant" THEN QdrantSearch(op, ok)
                   ELSE IndexSearch(op, ok)
        IN  /\ op.st = "search"
            /\ hist' = [hist EXCEPT ![r].backend_calls = @ + 1,
                                    ![r].targets = @ \cup {target},
                                    ![r].reordered = @ \/ Overtakes(ops[r], i, new)]
            /\ ops' = [ops EXCEPT ![r][i] = new]
            /\ UNCHANGED <<registry_vars, pc, client, chunks, batch_start,
                           similar_documents, result, aux_vars>>

OpRetry(r) ==
    \E i \in 1..Len(ops[r]), answer \in BOOLEAN :
        LET op == ops[r][i]
            target == BoundClient(client[r])
            ok == HandleOpen(target) /\ answer
            new == IndexRetry(op, ok)
        IN  /\ op.st = "retry"
            /\ hist' = [hist EXCEPT ![r].backend_calls = @ + 1,
                                    ![r].targets = @ \cup {target},
                                    ![r].reordered = @ \/ Overtakes(ops[r], i, new)]
            /\ ops' = [ops EXCEPT ![r][i] = new]
            /\ UNCHANGED <<registry_vars, pc, client, chunks, batch_start,
                           similar_documents, result, aux_vars>>

\* the batch loop with one candidate list shared by the runs of the client
AfterGather_shared(r) ==
    /\ LET docs == similar_documents[r] \o
                    Flatten([i \in 1..Len(ops[r]) |-> ops[r][i].res]) \o
                    Flatten([q \in 1..Len(ALL_RUNS) |->
                                IF ALL_RUNS[q] \in DOMAIN ops \ {r}
                                THEN Flatten([j \in 1..Len(ops[ALL_RUNS[q]]) |->
                                                 ops[ALL_RUNS[q]][j].res])
                                ELSE << >>])
           next == batch_start[r] + batch_size
       IN  /\ similar_documents' = [similar_documents EXCEPT ![r] = docs]
           /\ hist' = [hist EXCEPT ![r].outcomes =
                                        @ \o [i \in 1..Len(ops[r]) |-> ops[r][i].out],
                                    ![r].embed_calls =
                                        IF next < Len(chunks[r])
                                        THEN @ + Len(BatchOps(chunks[r], next)) ELSE @]
           /\ IF next < Len(chunks[r]) THEN
                  /\ batch_start' = [batch_start EXCEPT ![r] = next]
                  /\ ops' = [ops EXCEPT ![r] = BatchOps(chunks[r], next)]
                  /\ UNCHANGED <<pc, result>>
              ELSE
                  /\ result' = [result EXCEPT ![r] = Finish(client[r], docs)]
                  /\ pc' = [pc EXCEPT ![r] = "returned"]
                  /\ UNCHANGED <<batch_start, ops>>
    /\ UNCHANGED <<registry_vars, client, chunks, aux_vars>>

\* the step of the batch loop once asyncio.gather has returned
AfterGather(r) ==
    /\ LET docs == similar_documents[r] \o Flatten([i \in 1..Len(ops[r]) |-> ops[r][i].res])
           next == batch_start[r] + batch_size
       IN  /\ similar_documents' = [similar_documents EXCEPT ![r] = docs]
           /\ hist' = [hist EXCEPT ![r].outcomes =
                                        @ \o [i \in 1..Len(ops[r]) |-> ops[r][i].out],
                                    ![r].embed_calls =
                                        IF next < Len(chunks[r])
                                        THEN @ + Len(BatchOps(chunks[r], next)) ELSE @]
           /\ IF next < Len(chunks[r]) THEN
                  /\ batch_start' = [batch_start EXCEPT ![r] = next]
                  /\ ops' = [ops EXCEPT ![r] = BatchOps(chunks[r], next)]
                  /\ UNCHANGED <<pc, result>>
              ELSE
                  /\ result' = [result EXCEPT ![r] = Finish(client[r], docs)]
                  /\ pc' = [pc EXCEPT ![r] = "returned"]
                  /\ UNCHANGED <<batch_start, ops>>
    /\ UNCHANGED <<registry_vars, client, chunks, aux_vars>>

\* asyncio.gather returns: every task of the batch has finished
Gather_eager(r) ==
    /\ pc[r] = "gather"
    /\ \E i \in 1..Len(ops[r]) : ops[r][i].st = "done"
    /\ \A i \in 1..Len(ops[r]) : ops[r][i].st # "raised"
    /\ AfterGather(r)

Gather(r) ==
    /\ pc[r] = "gather"
    /\ \A i \in 1..Len(ops[r]) : ops[r][i].st = "done"
    /\ AfterGather(r)

\* asyncio.gather raises the exception of a task; SimilarityManager.run
\* catches it
GatherRaise(r) ==
    /\ pc[r] = "gather"
    /\ \E i \in 1..Len(ops[r]) : ops[r][i].st = "raised"
    /\ pc' = [pc EXCEPT ![r] = "returned"]
    /\ result' = [result EXCEPT ![r] = ManagerError(RaisedBy(ops[r]))]
    /\ UNCHANGED <<registry_vars, client, chunks, batch_start, ops,
                   similar_documents, hist, aux_vars>>

\* the caller has taken the result and the tasks of the run have ended; the
\* run identifier is free for the next call
RunDone(r) ==
    /\ pc[r] = "returned"
    /\ \A i \in 1..Len(ops[r]) : ops[r][i].st \in {"done", "raised"}
    /\ pc' = [pc EXCEPT ![r] = "idle"]
    /\ client' = [client EXCEPT ![r] = None]
    /\ chunks' = [chunks EXCEPT ![r] = << >>]
    /\ batch_start' = [batch_start EXCEPT ![r] = 0]
    /\ ops' = [ops EXCEPT ![r] = << >>]
    /\ similar_documents' = [similar_documents EXCEPT ![r] = << >>]
    /\ result' = [result EXCEPT ![r] = None]
    /\ hist' = [hist EXCEPT ![r] = NoHist]
    /\ UNCHANGED <<registry_vars, aux_vars>>

Next ==
    \/ Activate
    \/ SwitchActive
    \/ CloseAll
    \/ \E r \in Runs : RunStart(r)
    \/ \E r \in Runs : OpExists(r)
    \/ \E r \in Runs : OpSearch(r)
    \/ \E r \in Runs : OpRetry(r)
    \/ \E r \in Runs : Gather(r)
    \/ \E r \in Runs : GatherRaise(r)
    \/ \E r \in Runs : RunDone(r)

Spec == Init /\ [][Next]_vars

\* ====================================== split_text_into_sentences on its own
\* The function applied to texts given character by character.
Alphabet == {" ", "\n", ".", "a"}
CharTexts == SeqsUpTo(Alphabet, MaxChars)

\* the pieces of s between the cut positions
RECURSIVE CutAt(_, _, _)
CutAt(s, cuts, from) ==
    LET later == {c \in cuts : c >= from}
    IN  IF later = {} THEN <<SubSeq(s, from, Len(s))>>
        ELSE LET c == CHOOSE c \in later : \A k \in later : c <= k
             IN  <<SubSeq(s, from, c)>> \o CutAt(s, cuts, c + 1)

\* what nltk.sent_tokenize may answer for a non-blank text: the text cut into
\* consecutive sentences at some positions
Tokenizations(s) == {CutAt(s, cuts, 1) : cuts \in SUBSET (1..(Len(s) - 1))}

\* a registry with no client and no run, as Init gives it
NoRegistry ==
    /\ clients_map = {}
    /\ enabled = [c \in ClientIds |-> "unset"]
    /\ active_client = None
    /\ active_client_id = None
    /\ handle_open = [c \in ClientIds |-> FALSE]
    /\ default_client = "opensearch"
    /\ model_loaded = TRUE
    /\ activated = "no"
    /\ switch_result = "none"

NoRuns ==
    /\ pc = [r \in Runs |-> "idle"]
    /\ client = [r \in Runs |-> None]
    /\ chunks = [r \in Runs |-> << >>]
    /\ batch_start = [r \in Runs |-> 0]
    /\ ops = [r \in Runs |-> << >>]
    /\ similar_documents = [r \in Runs |-> << >>]
    /\ result = [r \in Runs |-> None]
    /\ hist = [r \in Runs |-> NoHist]

InitSegment ==
    /\ NoRegistry
    /\ NoRuns
    /\ seg \in {[NoSeg EXCEPT !.text = t] : t \in CharTexts}
    /\ closing = NoClosing

\* empty or whitespace-only text: the early return
SegmentEmpty ==
    /\ seg.path = "-"
    /\ strip(seg.text) = << >>
    /\ seg' = [seg EXCEPT !.path = "empty",
                          !.out = split_text_into_sentences(seg.text, sent_tokenize(<< >>))]
    /\ UNCHANGED <<registry_vars, run_vars, closing>>

\* nltk.sent_tokenize answers
SegmentTokenized ==
    /\ seg.path = "-"
    /\ strip(seg.text) # << >>
    /\ \E sentences \in Tokenizations(strip(seg.text)) :
           seg' = [seg EXCEPT !.path = "tokenizer",
                              !.out = split_text_into_sentences(
                                          seg.text, [exc |-> FALSE, sentences |-> sentences])]
    /\ UNCHANGED <<registry_vars, run_vars, closing>>

\* nltk.sent_tokenize raises: _fallback_sentence_split
SegmentFallback ==
    /\ seg.path = "-"
    /\ strip(seg.text) # << >>
    /\ seg' = [seg EXCEPT !.path = "fallback",
                          !.out = split_text_into_sentences(
                                      seg.text, [exc |-> TRUE, sentences |-> << >>])]
    /\ UNCHANGED <<registry_vars, run_vars, closing>>

NextSegment ==
    \/ SegmentEmpty
    \/ SegmentTokenized
    \/ SegmentFallback

SpecSegment == InitSegment /\ [][NextSegment]_vars

\* ================================================= runs of more than a batch
\* One constructed client, made active by _activate_clients, and texts of
\* LongLen sentences.
LongTexts == {[i \in 1..LongLen |-> IF i = k THEN S2 ELSE S1] : k \in {1, LongLen}}

InitBatch ==
    /\ clients_map = {"qdrant"}
    /\ enabled = [c \in ClientIds |-> "unset"]
    /\ active_client = None
    /\ active_client_id = None
    /\ handle_open = [c \in ClientIds |-> c \in clients_map]
    /\ default_client = "opensearch"
    /\ model_loaded = TRUE
    /\ activated = "no"
    /\ switch_result = "none"
    /\ NoRuns
    /\ seg = NoSeg
    /\ closing = NoClosing

RunStartLong(r) == \E t \in LongTexts : RunStartWith(r, t)

NextBatch ==
    \/ Activate
    \/ \E r \in Runs : RunStartLong(r)
    \/ \E r \in Runs : OpExists(r)
    \/ \E r \in Runs : OpSearch(r)
    \/ \E r \in Runs : Gather(r)
    \/ \E r \in Runs : RunDone(r)

SpecBatch == InitBatch /\ [][NextBatch]_vars

\* ========================================== search_similar_documents on its own
\* The method called on a constructed client with a vector of the caller's.
Vectors ==
    {EmptyVector} \cup {Vector(d, near) : d \in {300, EMBEDDING_DIM}, near \in {S1, strip(S2)}}

InitSearch == Init

DirectSearch(r) ==
    \E c \in clients_map, v \in Vectors :
        /\ pc[r] = "idle"
        /\ pc' = [pc EXCEPT ![r] = "direct"]
        /\ client' = [client EXCEPT ![r] = c]
        /\ ops' = [ops EXCEPT ![r] = <<SearchOp(v.near, v)>>]
        /\ UNCHANGED <<registry_vars, chunks, batch_start, similar_documents, result,
                       hist, aux_vars>>

\* the call has returned and the caller has taken the hits
DirectReturn(r) ==
    /\ pc[r] = "direct"
    /\ \A i \in 1..Len(ops[r]) : ops[r][i].st \in {"done", "raised"}
    /\ pc' = [pc EXCEPT ![r] = "idle"]
    /\ client' = [client EXCEPT ![r] = None]
    /\ ops' = [ops EXCEPT ![r] = << >>]
    /\ hist' = [hist EXCEPT ![r] = NoHist]
    /\ UNCHANGED <<registry_vars, chunks, batch_start, similar_documents, result, aux_vars>>

NextSearch ==
    \/ CloseAll
    \/ \E r \in Runs : DirectSearch(r)
    \/ \E r \in Runs : OpExists(r)
    \/ \E r \in Runs : OpSearch(r)
    \/ \E r \in Runs : OpRetry(r)
    \/ \E r \in Runs : DirectReturn(r)

SpecSearch == InitSearch /\ [][NextSearch]_vars

\* ================================================ _set_active_client on its own
\* BaseManager._set_active_client applied to registries whose clients carry
\* every value the method tests: no enabled attribute (the search clients),
\* enabled False (the class attribute of the LLM clients) and enabled True.
EnabledValues == {"unset", "true", "false"}

InitSelect ==
    /\ clients_map \in SUBSET ClientIds
    /\ enabled \in {en \in [ClientIds -> EnabledValues] :
                        \A c \in ClientIds \ clients_map : en[c] = "unset"}
    /\ active_client = None
    /\ active_client_id = None
    /\ handle_open = [c \in ClientIds |-> c \in clients_map]
    /\ default_client \in ClientIds
    /\ model_loaded = TRUE
    /\ activated = "no"
    /\ switch_result = "none"
    /\ NoRuns
    /\ seg = NoSeg
    /\ closing = NoClosing

NextSelect ==
    \/ Activate
    \/ SwitchActive

SpecSelect == InitSelect /\ [][NextSelect]_vars

\* ===================================================== sequences of close()
\* close() on one client and close_connections(), called one after another,
\* with the calls counted in closing.
InitClose == Init

Counted(c, called, released) ==
    [calls |-> closing[c].calls + (IF called THEN 1 ELSE 0),
     releases |-> closing[c].releases + (IF released THEN 1 ELSE 0),
     late |-> closing[c].late + (IF called /\ closing[c].releases > 0 THEN 1 ELSE 0)]

client_close(c, outcome) ==
    LET r == close(c, handle_open[c], outcome)
    IN  /\ c \in clients_map
        /\ closing[c].calls < MaxCloses
        /\ handle_open' = [handle_open EXCEPT ![c] = r.open]
        /\ closing' = [closing EXCEPT ![c] = Counted(c, TRUE, r.released)]
        /\ UNCHANGED <<clients_map, enabled, active_client, active_client_id,
                       default_client, model_loaded, activated, switch_result,
                       run_vars, seg>>

CloseOne == \E c \in ClientIds, outcome \in CloseOutcomes : client_close(c, outcome)

CloseAllCounted(outs) ==
    LET r == close_connections(outs)
    IN  /\ \A c \in clients_map : closing[c].calls < MaxCloses
        /\ handle_open' = r.handle_open
        /\ closing' = [c \in ClientIds |-> Counted(c, c \in r.called, c \in r.released)]
        /\ UNCHANGED <<clients_map, enabled, active_client, active_client_id,
                       default_client, model_loaded, activated, switch_result,
                       run_vars, seg>>

CloseAllSeq == \E outs \in [ClientIds -> CloseOutcomes] : CloseAllCounted(outs)

NextClose ==
    \/ CloseOne
    \/ CloseAllSeq

SpecClose == InitClose /\ [][NextClose]_vars

\* ============================================ runs in which model.encode raises
\* One constructed client, made active by _activate_clients; model.encode
\* raises for some chunks of the text and answers for the others.
InitEncode == InitBatch

RunStartFailing(r) ==
    \E t \in Texts, fails \in SUBSET (1..MaxSentences) : RunStartEncode(r, t, fails)

NextEncode ==
    \/ Activate
    \/ \E r \in Runs : RunStartFailing(r)
    \/ \E r \in Runs : OpExists(r)
    \/ \E r \in Runs : OpSearch(r)
    \/ \E r \in Runs : Gather(r)
    \/ \E r \in Runs : GatherRaise(r)
    \/ \E r \in Runs : RunDone(r)

SpecEncode == InitEncode /\ [][NextEncode]_vars

\* ====================================================== runs under fairness
\* Every backend call is answered in the end (with a result or a failure) and
\* the event loop resumes a run whose gather has an outcome: weak fairness of
\* the steps that answer a call and of the steps that resume the run.
NextLive ==
    \/ Activate
    \/ \E r \in Runs : RunStartFailing(r)
    \/ \E r \in Runs : OpExists(r)
    \/ \E r \in Runs : OpSearch(r)
    \/ \E r \in Runs : OpRetry(r)
    \/ \E r \in Runs : Gather(r)
    \/ \E r \in Runs : GatherRaise(r)
    \/ \E r \in Runs : RunDone(r)

\* what every step of a task or of the batch loop changes
progress_vars == <<pc, batch_start, ops>>

SpecLive ==
    /\ Init
    /\ [][NextLive]_vars
    /\ \A r \in Runs :
           /\ WF_progress_vars(OpExists(r))
           /\ WF_progress_vars(OpSearch(r))
           /\ WF_progress_vars(OpRetry(r))
           /\ WF_progress_vars(Gather(r))
           /\ WF_progress_vars(GatherRaise(r))

\* ========================================================= two runs at once
\* Two requests served by the same event loop: two calls of run on the same
\* active client, their tasks interleaved, over the same stored documents.
PairTexts == {<<S1>>, <<S2>>, <<S1, S2>>}

InitPair ==
    /\ clients_map = {"qdrant"}
    /\ enabled = [c \in ClientIds |-> "unset"]
    /\ active_client = None
    /\ active_client_id = None
    /\ handle_open = [c \in ClientIds |-> c \in clients_map]
    /\ default_client = "opensearch"
    /\ model_loaded = TRUE
    /\ activated = "no"
    /\ switch_result = "none"
    /\ pc = [r \in PairRuns |-> "idle"]
    /\ client = [r \in PairRuns |-> None]
    /\ chunks = [r \in PairRuns |-> << >>]
    /\ batch_start = [r \in PairRuns |-> 0]
    /\ ops = [r \in PairRuns |-> << >>]
    /\ similar_documents = [r \in PairRuns |-> << >>]
    /\ result = [r \in PairRuns |-> None]
    /\ hist = [r \in PairRuns |-> NoHist]
    /\ seg = NoSeg
    /\ closing = NoClosing

RunStartPair(r) == \E t \in PairTexts : RunStartWith(r, t)

NextPair ==
    \/ Activate
    \/ \E r \in PairRuns : RunStartPair(r)
    \/ \E r \in PairRuns : OpExists(r)
    \/ \E r \in PairRuns : OpSearch(r)
    \/ \E r \in PairRuns : Gather(r)
    \/ \E r \in PairRuns : RunDone(r)

SpecPair == InitPair /\ [][NextPair]_vars

\* SimilarityPipeline.run: a second try/except around the manager's run
SimilarityPipeline_run(res) ==
    IF res.status = "raised"
    THEN PipelineResult("error", << >>, <<"Error analyzing prompt, error=", res.details>>)
    ELSE res

\* ============================================================= properties
Returned(r) == pc[r] = "returned"
Started(r) == pc[r] # "idle"
Statuses == {"allow", "block", "notify", "error"}
Verdicts == {"allow", "block", "notify"}

RuleIds(rules) == {rules[i].id : i \in 1..Len(rules)}
SeqToSet(q) == {q[i] : i \in 1..Len(q)}

\* the run went through the client's run method and no task raised
CompletedNormally(r) ==
    /\ Returned(r)
    /\ hist[r].active0 # None
    /\ RaisedBy(ops[r]) = None

\* the stored hit a rule was made from
HitOf(rule, h) ==
    /\ h.id = rule.id
    /\ h.category = rule.name
    /\ h.details = rule.details
    /\ h.text = rule.body

\* ids of the hits of a chunk that a query of limit k surfaces: first of
\* their category and above the notify threshold
SurvivorIds(chunk, k) ==
    LET hits == Corpus(chunk)
    IN  {hits[i].id : i \in {i \in 1..Len(hits) :
                                /\ i <= k
                                /\ hits[i].score > SIMILARITY_NOTIFY_THRESHOLD
                                /\ \A j \in 1..(i - 1) :
                                       hits[j].category # hits[i].category}}

\* C1: SimilarityManager.run (and SimilarityPipeline.run above it) never
\* raises: whatever escapes a task of the run, the call returns a
\* PipelineResult with status ERROR, no triggered rules and the error message
\* as details.
C1_NeverRaises ==
    \A r \in Runs :
        Returned(r) =>
            /\ result[r].status \in Statuses
            /\ SimilarityPipeline_run(result[r]) = result[r]
            /\ RaisedBy(ops[r]) # None =>
                   /\ result[r].status = "error"
                   /\ result[r].triggered_rules = << >>
                   /\ \E id \in ClientIds \cup {None} :
                          result[r].details =
                              <<"Error during similarity search with", id, RaisedBy(ops[r])>>

C1_Witness ==
    \E r \in Runs :
        /\ Returned(r)
        /\ RaisedBy(ops[r]) = "ValueError"
        /\ result[r].status = "error"

\* C2: if after activation no constructed backend has enabled = true, run
\* returns status ERROR with no triggered rules at once, without an embedding
\* call or a backend call.
C2_NoEnabledBackendIsError ==
    \A r \in Runs :
        (Started(r) /\ hist[r].activated0 # "no" /\ ~hist[r].enabled0) =>
            /\ Returned(r)
            /\ result[r].status = "error"
            /\ result[r].triggered_rules = << >>
            /\ hist[r].embed_calls = 0
            /\ hist[r].backend_calls = 0

C5_StatusFromRules ==
    \A r \in Runs :
        CompletedNormally(r) =>
            LET rules == result[r].triggered_rules
                blocks == {i \in 1..Len(rules) : rules[i].action = "block"}
            IN  /\ result[r].status \in Verdicts
                /\ result[r].status = "allow" <=> Len(rules) = 0
                /\ result[r].status = "block" <=> blocks # {}
                /\ result[r].status = "notify" <=> (Len(rules) > 0 /\ blocks = {})

C5_Witness ==
    \E r \in Runs :
        /\ CompletedNormally(r)
        /\ result[r].status = "block"
        /\ \E i \in 1..Len(result[r].triggered_rules) :
               result[r].triggered_rules[i].action = "notify"

\* C6: with an active backend, a run on empty or whitespace-only text returns
\* ALLOW with no triggered rules and makes no embedding call and no backend
\* call, whether or not the embedding model is loaded.
C6_BlankTextIsClear ==
    \A r \in Runs :
        (Started(r) /\ hist[r].blank /\ hist[r].active0 # None) =>
            /\ Returned(r)
            /\ result[r].status = "allow"
            /\ result[r].triggered_rules = << >>
            /\ hist[r].embed_calls = 0
            /\ hist[r].backend_calls = 0

C6_Witness ==
    \E r \in Runs :
        /\ Returned(r)
        /\ hist[r].blank
        /\ hist[r].active0 # None
        /\ ~model_loaded
        /\ result[r].status = "allow"

\* C7: with an active backend and no embedding model, a run on a text with at
\* least one chunk returns ERROR with no triggered rules, never a verdict,
\* and reaches no backend.
C7_EmbeddingUnavailableIsFatal ==
    \A r \in Runs :
        (Started(r) /\ hist[r].active0 # None /\ ~model_loaded /\ chunks[r] # << >>) =>
            /\ hist[r].backend_calls = 0
            /\ Returned(r) =>
                   /\ result[r].status = "error"
                   /\ result[r].triggered_rules = << >>

C7_Witness ==
    \E r \in Runs :
        /\ Returned(r)
        /\ hist[r].active0 # None
        /\ ~model_loaded
        /\ Len(chunks[r]) > 1
        /\ result[r].status = "error"

\* C8: a search call that fails contributes no candidates and does not make
\* the run fail: the run returns a verdict whose triggered rules are exactly
\* those of the hits of the calls that succeeded.
C8_PartialFailureTolerated ==
    \A r \in Runs :
        (Returned(r) /\ hist[r].active0 # None /\ model_loaded) =>
            LET good == {k \in 1..Len(chunks[r]) : hist[r].outcomes[k] \in {"ok", "ok3"}}
                limit(k) == IF hist[r].outcomes[k] = "ok" THEN PrimaryLimit
                            ELSE DegradedLimit
            IN  /\ result[r].status \in Verdicts
                /\ Len(hist[r].outcomes) = Len(chunks[r])
                /\ RuleIds(result[r].triggered_rules) =
                       UNION {SurvivorIds(chunks[r][k], limit(k)) : k \in good}

C8_Witness ==
    \E r \in Runs :
        /\ Returned(r)
        /\ model_loaded
        /\ "fail" \in SeqToSet(hist[r].outcomes)
        /\ "ok" \in SeqToSet(hist[r].outcomes)
        /\ result[r].status = "block"

\* C9: at most one backend is active, and an active backend has
\* enabled = true.
C9_ActiveIsEnabled ==
    active_client # None =>
        /\ active_client \in clients_map
        /\ enabled[active_client] = "true"

RulePairs(rules) == {<<rules[i].id, rules[i].action>> : i \in 1..Len(rules)}

\* every query of the run was answered by the backend
AllAnswered(r) ==
    /\ Returned(r)
    /\ hist[r].active0 # None
    /\ Len(hist[r].outcomes) = Len(chunks[r])
    /\ \A k \in 1..Len(chunks[r]) : hist[r].outcomes[k] = "ok"

\* the candidates of one chunk, as a set
ChunkDocs(variant, chunk) ==
    LET v == Vector(EMBEDDING_DIM, chunk)
        hits == IF variant = "qdrant"
                THEN BackendSearchQdrant(v, PrimaryLimit, SIMILARITY_NOTIFY_THRESHOLD)
                ELSE BackendTopK(v, PrimaryLimit)
    IN  SeqToSet(FilterDocs(DedupByCategory(hits)))

\* the (id, action) pairs a set of chunks stands for, whatever their order:
\* the collection-based variant keeps for a doc_id its best-scoring candidates
ExpectedPairs(variant, chunkset) ==
    LET all == UNION {ChunkDocs(variant, c) : c \in chunkset}
        best == {d \in all : \A e \in all : e.doc_id = d.doc_id => e.score <= d.score}
        kept == IF variant = "qdrant" THEN best ELSE all
    IN  {<<d.doc_id, d.action>> : d \in kept}

ExpectedStatus(pairs) ==
    IF pairs = {} THEN "allow"
    ELSE IF \E p \in pairs : p[2] = "block" THEN "block"
    ELSE "notify"

\* C11: for a fixed text and a static corpus whose queries are all answered,
\* the set of (rule id, action) pairs and the status of the result are a
\* function of the set of chunks alone: the same for every completion order
\* of the tasks of a batch and for every run of the text.
C11_Deterministic ==
    \A r \in Runs :
        (AllAnswered(r) /\ model_loaded) =>
            LET pairs == ExpectedPairs(Variant(client[r]), SeqToSet(chunks[r]))
            IN  /\ RulePairs(result[r].triggered_rules) = pairs
                /\ result[r].status = ExpectedStatus(pairs)

\* a run of two different chunks that share a doc_id, whose second task
\* finished before its first
C11_Witness ==
    \E r \in Runs :
        /\ AllAnswered(r)
        /\ hist[r].reordered
        /\ Variant(client[r]) = "qdrant"
        /\ chunks[r] = <<S1, strip(S2)>>
        /\ <<"X", "block">> \in RulePairs(result[r].triggered_rules)

\* ---------------------------------------------------------------- C12
\* C12: split_text_into_sentences returns only trimmed fragments longer than
\* one character, on the tokenizer path and on the fallback path, and the
\* empty sequence for an empty or whitespace-only text.
C12_FragmentsTrimmedAndLong ==
    seg.path # "-" =>
        /\ \A i \in 1..Len(seg.out) :
               /\ Len(seg.out[i]) > 1
               /\ strip(seg.out[i]) = seg.out[i]
        /\ strip(seg.text) = << >> => (seg.path = "empty" /\ seg.out = << >>)

\* the fallback splitter meets a one-character piece and a longer one
C12_Witness ==
    /\ seg.path = "fallback"
    /\ seg.text = <<"a", ".", "a", "a">>
    /\ seg.out = << <<"a", "a">> >>

\* ---------------------------------------------------------------- C13
\* C13: a switch_active_client call that returns gives True exactly when the
\* active client after the call is not the active client before it.
C13_SwitchReturnsWhetherChanged ==
    [][(SwitchActive /\ switch_result' # "raised") =>
           (switch_result' = "true" <=> active_client' # active_client)]_vars

\* ---------------------------------------------------------------- C14
\* C14: when close_connections returns, every constructed client is closed,
\* whatever its enabled flag and whichever client is active, also when the
\* close of one of them failed.
C14_CloseAllClosesAll ==
    [][\A outs \in [ClientIds -> CloseOutcomes] :
           (CloseAllWith(outs) /\ close_connections(outs).exc = None) =>
               \A c \in clients_map : ~handle_open'[c]]_vars

\* ---------------------------------------------------------------- C15
\* C15: after _activate_clients has returned a constructed client has
\* enabled = True exactly when its ping and its index check both succeeded during the
\* activation; a client whose check failed stays not enabled and does not
\* stop the checks of the others.
C15_EnabledIffChecksPassed ==
    [][\A ping_ok, index_ok \in SUBSET clients_map :
           (_activate_clients(ping_ok, index_ok) /\ activated' = "done") =>
               \A c \in clients_map :
                   enabled'[c] = "true" <=> (c \in ping_ok /\ c \in index_ok)]_vars

\* ---------------------------------------------------------------- C16
Running(op) == op.st \notin {"done", "raised"}

\* C16: the chunks are processed in consecutive batches of 5: the tasks in
\* flight are those of one batch, at most 5 of them, and a batch is started
\* only when every task of the batches before it has finished.
C16_BatchesInOrder ==
    \A r \in Runs :
        InFlight(r) =>
            /\ batch_start[r] % 5 = 0
            /\ Len(ops[r]) = Min(5, Len(chunks[r]) - batch_start[r])
            /\ \A i \in 1..Len(ops[r]) : ops[r][i].chunk = chunks[r][batch_start[r] + i]
            /\ Cardinality({i \in 1..Len(ops[r]) : Running(ops[r][i])}) <= 5
            /\ Len(hist[r].outcomes) = batch_start[r]
            /\ \A k \in 1..Len(hist[r].outcomes) : hist[r].outcomes[k] # "-"

\* the second batch is in flight after a first batch of 5 tasks
C16_Witness ==
    \E r \in Runs :
        /\ InFlight(r)
        /\ batch_start[r] = 5
        /\ Len(chunks[r]) > 5
        /\ \E i \in 1..Len(ops[r]) : ops[r][i].st = "search"
        /\ "ok" \in SeqToSet(hist[r].outcomes)

\* ---------------------------------------------------------------- C17
\* C17: a search_similar_documents call whose primary query (limit 5) fails
\* sends exactly one more query, with limit 3; it returns the hits of that
\* query if it succeeds and the empty list if it fails too.  No call sends
\* more than two queries and none raises.
C17_DegradedRetry ==
    \A r \in Runs :
        \A i \in 1..Len(ops[r]) :
            LET op == ops[r][i]
            IN  /\ op.queries <= 2
                /\ op.st = "raised" => (op.out = "ValueError" /\ op.queries = 0)
                /\ op.st = "retry" => op.queries = 1
                /\ (op.st = "done" /\ op.out = "ok") => op.queries = 1
                /\ (op.st = "done" /\ op.out = "fail") =>
                       (op.queries = 2 /\ op.hits = << >>)
                /\ (op.st = "done" /\ op.out = "ok3") =>
                       /\ op.queries = 2
                       /\ op.hits = DedupByCategory(BackendTopK(op.vector, 3))

\* ---------------------------------------------------------------- C18
\* what the backend answers to the query the call's hits came from
Response(c, op) ==
    IF Variant(c) = "qdrant"
    THEN BackendSearchQdrant(op.vector, PrimaryLimit, SIMILARITY_NOTIFY_THRESHOLD)
    ELSE BackendTopK(op.vector, IF op.out = "ok3" THEN DegradedLimit ELSE PrimaryLimit)

Answered(op) == op.st = "done" /\ op.out \in {"ok", "ok3"}

\* C18: the hits one search_similar_documents call returns hold at most one
\* hit per category: the first hit of the category in the backend's
\* response, which is its best-scoring one as the response is sorted by
\* descending score.
C18_OneHitPerCategory ==
    \A r \in Runs :
        \A n \in 1..Len(ops[r]) :
            LET op == ops[r][n]
                resp == Response(client[r], op)
            IN  Answered(op) =>
                    /\ \A a, b \in 1..Len(op.hits) :
                           op.hits[a].category = op.hits[b].category => a = b
                    /\ \A i \in 1..Len(resp) :
                           \E a \in 1..Len(op.hits) : op.hits[a].category = resp[i].category
                    /\ \A a \in 1..Len(op.hits) :
                           \E i \in 1..Len(resp) :
                               /\ resp[i] = op.hits[a]
                               /\ \A j \in 1..(i - 1) : resp[j].category # resp[i].category
                               /\ \A j \in 1..Len(resp) :
                                      resp[j].category = resp[i].category =>
                                          resp[j].score <= resp[i].score

\* a response with two hits of one category
C18_Witness ==
    \E r \in Runs :
        \E n \in 1..Len(ops[r]) :
            /\ Answered(ops[r][n])
            /\ Variant(client[r]) = "qdrant"
            /\ Len(ops[r][n].hits) = 3
            /\ Len(Response(client[r], ops[r][n])) = 4

\* ---------------------------------------------------------------- C19
\* C19: when the index or collection does not exist, or the existence check
\* fails, search_similar_documents returns the empty list without sending a
\* similarity query and without raising, and the run goes on with the other
\* chunks to a verdict.
C19_MissingIndexIsEmpty ==
    \A r \in Runs :
        /\ \A n \in 1..Len(ops[r]) :
               LET op == ops[r][n]
               IN  op.idx = "no" =>
                       /\ op.st = "done"
                       /\ op.out = "noindex"
                       /\ op.queries = 0
                       /\ op.hits = << >>
                       /\ op.res = << >>
        /\ (Returned(r) /\ hist[r].active0 # None /\ model_loaded
                /\ "noindex" \in SeqToSet(hist[r].outcomes)) =>
               /\ result[r].status \in Verdicts
               /\ (\A k \in 1..Len(hist[r].outcomes) : hist[r].outcomes[k] = "noindex")
                      => result[r].status = "allow"

\* a run with one call that found no index and one that was answered
C19_Witness ==
    \E r \in Runs :
        /\ Returned(r)
        /\ "noindex" \in SeqToSet(hist[r].outcomes)
        /\ "ok" \in SeqToSet(hist[r].outcomes)
        /\ result[r].status = "block"
        /\ \E n \in 1..Len(ops[r]) : ops[r][n].idx = "no"

\* ---------------------------------------------------------------- C20
\* C20: search_similar_documents with an empty vector returns the empty list
\* without a call to the backend; with a vector that is not empty but not of
\* length 768 it goes on like with one of length 768: the query is sent and
\* the call returns the backend's hits, one per category.
C20_VectorValidation ==
    \A r \in Runs :
        \A n \in 1..Len(ops[r]) :
            LET op == ops[r][n]
            IN  /\ op.vector.dim = 0 =>
                       /\ op.st \in {"done", "raised"}
                       /\ op.st = "done" => op.out = "novector"
                       /\ op.queries = 0
                       /\ op.idx = "-"
                       /\ op.hits = << >>
                /\ op.vector.dim # 0 => op.out # "novector"
                /\ (op.vector.dim # 0 /\ op.st = "done" /\ op.out = "ok") =>
                       /\ op.queries = 1
                       /\ op.hits = DedupByCategory(Response(client[r], op))

\* a call with a vector of length 300 that returned hits
C20_Witness ==
    \E r \in Runs :
        /\ pc[r] = "direct"
        /\ ops[r][1].vector.dim = 300
        /\ ops[r][1].st = "done"
        /\ ops[r][1].out = "ok"
        /\ ops[r][1].hits # << >>

\* the configured default resolves to a constructed client whose enabled
\* flag is true
DefaultEnabled(en) == default_client \in clients_map /\ en[default_client] = "true"

\* what the selection rule prescribes for a call with client_id (None when
\* absent) that returns: the given client when it is known and enabled,
\* otherwise the default whenever the default is enabled
SelectsAsSpecified(client_id, en) ==
    IF client_id # None /\ client_id \in clients_map /\ en[client_id] = "true"
    THEN active_client' = client_id /\ active_client_id' = client_id
    ELSE DefaultEnabled(en) =>
             (active_client' = default_client /\ active_client_id' = default_client)

\* C21: _set_active_client(id) makes id active when id is given, known and
\* enabled; in every other case (id absent, unknown, or known but not
\* enabled) it makes the configured default active whenever the default
\* resolves to an enabled client.
C21_SelectActiveRule ==
    [][/\ \A client_id \in ClientIds \cup UnknownIds :
              switch_active_client(client_id) => SelectsAsSpecified(client_id, enabled)
       /\ Activate => SelectsAsSpecified(None, enabled')]_vars

\* C22: the fallback of _set_active_client is taken only when no client is
\* active and activates only a client whose enabled flag is true; when no
\* constructed client is enabled the active client stays unset, and a
\* client whose enabled flag is false is never made active.
C22_FallbackOnlyEnabled ==
    [][(Activate \/ SwitchActive) =>
           /\ active_client' # active_client =>
                  (active_client' # None /\ enabled'[active_client'] = "true")
           /\ (active_client = None /\ \A c \in clients_map : enabled'[c] # "true") =>
                  active_client' = None]_vars

\* a close() of client c, alone or inside close_connections, made in a state
\* where after(c) holds, releases nothing, lets no exception through and
\* leaves the handle closed
QuietCloseAfter(after(_)) ==
    /\ \A c \in clients_map, outcome \in CloseOutcomes :
           (after(c) /\ client_close(c, outcome)) =>
               /\ ~handle_open'[c]
               /\ closing'[c].releases = closing[c].releases
               /\ close(c, handle_open[c], outcome).exc = None
    /\ \A outs \in [ClientIds -> CloseOutcomes] :
           CloseAllCounted(outs) =>
               /\ \A c \in clients_map :
                      after(c) =>
                          /\ ~handle_open'[c]
                          /\ closing'[c].releases = closing[c].releases
               /\ (\A c \in clients_map : after(c)) => close_connections(outs).exc = None

Released(c) == closing[c].releases > 0
Called(c) == closing[c].calls > 0

OpInFlight(r) == \E i \in 1..Len(ops[r]) : ops[r][i].st \notin {"done", "raised"}

\* C24: when SimilarityManager.run has returned its PipelineResult, also the
\* ERROR result made because the embedding of one chunk of a batch raised,
\* no task of that run is still in flight.
C24_NoOperationOutlivesRun == \A r \in Runs : Returned(r) => ~OpInFlight(r)

\* C25: _active_client is set exactly when _active_client_id is set, and the
\* identifier is the key of the active client in _clients_map, also after the
\* fallback of _set_active_client.
C25_ActiveIffIdentifier ==
    /\ active_client = None <=> active_client_id = None
    /\ active_client # None => active_client_id = active_client

\* C26: from construction until _activate_clients has run no client is
\* active: has_active_client is false and every run started in that time
\* returns ERROR with no triggered rules.
C26_NoActiveBeforeActivate ==
    /\ activated = "no" => ~has_active_client
    /\ \A r \in Runs :
           (Returned(r) /\ hist[r].activated0 = "no") =>
               (result[r].status = "error" /\ result[r].triggered_rules = << >>)

\* similarity queries one task may send: one for the Qdrant client, the
\* primary one and one degraded retry for the index-based clients
MaxQueries(c) == IF Variant(c) = "qdrant" THEN 1 ELSE 2

C28_ClosedBackendNoVerdict ==
    [][\A r \in Runs :
           (/\ Gather(r)
            /\ pc'[r] = "returned"
            /\ ~HandleOpen(client[r])
            /\ \A i \in 1..Len(ops[r]) : ops[r][i].queries = 0) =>
               result'[r].status = "error"]_vars

\* C29: with a client already active, switch_active_client(id) with an id
\* that is unknown, or that names a client that is not enabled, leaves the
\* active client, the active identifier and every enabled flag unchanged and
\* returns False.
C29_FailedSwitchChangesNothing ==
    [][\A client_id \in ClientIds \cup UnknownIds :
           (/\ has_active_client
            /\ client_id \notin clients_map \/ enabled[client_id] # "true"
            /\ switch_active_client(client_id)) =>
               /\ active_client' = active_client
               /\ active_client_id' = active_client_id
               /\ enabled' = enabled
               /\ switch_result' = "false"]_vars

\* the chunks of the run whose query the backend answered
AnsweredChunks(r) ==
    {chunks[r][k] : k \in {k \in 1..Len(chunks[r]) : hist[r].outcomes[k] = "ok"}}

\* C30: two runs in flight at once on the same active client, over a static
\* corpus, do not interfere: each returns the status and the rules that its
\* own chunks and the answers to its own queries stand for, as it would
\* alone, and no candidate of the other run appears in its result.
C30_RunsDoNotInterfere ==
    \A r \in DOMAIN pc :
        (Returned(r) /\ hist[r].active0 # None /\ Len(hist[r].outcomes) = Len(chunks[r])) =>
            LET pairs == ExpectedPairs(Variant(client[r]), AnsweredChunks(r))
            IN  /\ RulePairs(result[r].triggered_rules) = pairs
                /\ result[r].status = ExpectedStatus(pairs)

\* both runs have returned, the second started while the first was in
\* flight, on different texts and with different verdicts
C30_Witness ==
    /\ DOMAIN pc = PairRuns
    /\ \A r \in PairRuns : Returned(r) /\ AllAnswered(r)
    /\ hist["r2"].concurrent
    /\ chunks["r1"] = <<S1>>
    /\ chunks["r2"] = <<strip(S2)>>
    /\ result["r1"].status = "block"
    /\ result["r2"].status = "notify"

====
